---- MODULE Spec2Model ----
(***************************************************************************)
(* Track and base-image end-of-life rules of src/image/utils/eol_utils.py. *)
(*                                                                         *)
(* A Python str is a sequence of one-character strings, so that prefix     *)
(* tests, splitting, stripping, pattern matching, strptime and strftime    *)
(* are computed character by character as the library computes them.       *)
(* A datetime is a record of its calendar fields; every datetime of the    *)
(* module carries tzinfo = UTC, so comparison is field by field.           *)
(***************************************************************************)
EXTENDS Integers, Sequences, FiniteSets, TLC

VARIABLES
    feed,     \* lines of /usr/share/distro-info/ubuntu.csv, as file iteration yields them
    now,      \* what datetime.now(timezone.utc) returns during the call
    call,     \* the function called and its arguments
    pc,       \* "call": about to run;  "done": the call has returned or raised
    ret,      \* how the call ended: the value returned or the error raised
    log,      \* the records the call handed to the logger, in order
    opens     \* how many times the call opened the feed

vars == <<feed, now, call, pc, ret, log, opens>>

----------------------------------------------------------------------------
(* Bounds of the checked input space *)

MaxRows == 2          \* data rows of a feed
MaxViolations == 2    \* Violation Records handed to the report generator
MaxSecond == 1        \* seconds after midnight of the enumerated instants

----------------------------------------------------------------------------
(* str *)

Digits == {"0", "1", "2", "3", "4", "5", "6", "7", "8", "9"}

DigitVal(c) ==
    CASE c = "0" -> 0 [] c = "1" -> 1 [] c = "2" -> 2 [] c = "3" -> 3
      [] c = "4" -> 4 [] c = "5" -> 5 [] c = "6" -> 6 [] c = "7" -> 7
      [] c = "8" -> 8 [] c = "9" -> 9

DigitChar(n) ==
    CASE n = 0 -> "0" [] n = 1 -> "1" [] n = 2 -> "2" [] n = 3 -> "3"
      [] n = 4 -> "4" [] n = 5 -> "5" [] n = 6 -> "6" [] n = 7 -> "7"
      [] n = 8 -> "8" [] n = 9 -> "9"

\* the characters str.strip() removes
Whitespace == {" ", "\t", "\n", "\r"}

\* p is a prefix of s
StartsWith(s, p) ==
    /\ Len(p) <= Len(s)
    /\ SubSeq(s, 1, Len(p)) = p

\* s.split(sep) for a one-character sep: every field, empty ones too
RECURSIVE Split(_, _)
Split(s, sep) ==
    IF \A i \in 1..Len(s) : s[i] # sep
    THEN <<s>>
    ELSE LET i == CHOOSE k \in 1..Len(s) :
                      /\ s[k] = sep
                      /\ \A j \in 1..(k - 1) : s[j] # sep
         IN  <<SubSeq(s, 1, i - 1)>> \o Split(SubSeq(s, i + 1, Len(s)), sep)

\* s.strip()
Strip(s) ==
    LET keep == {i \in 1..Len(s) : s[i] \notin Whitespace}
    IN  IF keep = {} THEN <<>>
        ELSE LET lo == CHOOSE i \in keep : \A j \in keep : i <= j
                 hi == CHOOSE i \in keep : \A j \in keep : j <= i
             IN  SubSeq(s, lo, hi)

\* seq[-1]
LastOf(seq) == seq[Len(seq)]

\* sep.join(parts)
RECURSIVE Join(_, _)
Join(sep, parts) ==
    IF Len(parts) = 0 THEN <<>>
    ELSE IF Len(parts) = 1 THEN parts[1]
    ELSE parts[1] \o sep \o Join(sep, Tail(parts))

\* dict(zip(headers, fields)): pairs up to the shorter of the two, the last
\* value winning for a repeated key
DictZip(headers, fields) ==
    LET n == IF Len(headers) < Len(fields) THEN Len(headers) ELSE Len(fields)
        keys == {headers[i] : i \in 1..n}
    IN  [k \in keys |->
            fields[CHOOSE i \in 1..n :
                      /\ headers[i] = k
                      /\ \A j \in 1..n : headers[j] = k => j <= i]]

\* Optional[str]
None == [none |-> TRUE]
Some(s) == [none |-> FALSE, str |-> s]

\* the truth value of an Optional[str]: None and "" are false
Truthy(x) == (~x.none) /\ Len(x.str) > 0

----------------------------------------------------------------------------
(* re *)

\* a variant of VERSION_ID_REGEX without the "$": the pattern need only match
\* the start of s
VersionIdAtStart(s) ==
    \E a \in {1, 2}, b \in {1, 2} :
        /\ Len(s) >= a + 1 + b
        /\ s[a + 1] = "."
        /\ \A i \in (1..(a + 1 + b)) \ {a + 1} : s[i] \in Digits

\* VERSION_ID_REGEX.match(s): one or two digits, a dot, one or two digits;
\* "$" matches at the end of the string and also before a final newline
VERSION_ID_REGEX(s) ==
    LET t == IF Len(s) > 0 /\ s[Len(s)] = "\n" THEN SubSeq(s, 1, Len(s) - 1) ELSE s
        dots == {i \in 1..Len(t) : t[i] = "."}
    IN  /\ Cardinality(dots) = 1
        /\ LET d == CHOOSE i \in dots : TRUE
           IN  /\ (d - 1) \in {1, 2}
               /\ (Len(t) - d) \in {1, 2}
               /\ \A i \in (1..Len(t)) \ {d} : t[i] \in Digits

----------------------------------------------------------------------------
(* datetime *)

\* a format is the sequence of its directives and literal characters
EOL_TRACK_FMT == <<"%Y", "-", "%m", "-", "%d", "T", "%H", ":", "%M", ":", "%S", "Z">>

EOL_DISTRO_FMT == <<"%Y", "-", "%m", "-", "%d">>

Directives == {"%Y", "%m", "%d", "%H", "%M", "%S"}

IsLeap(y) == (y % 4 = 0) /\ ((y % 100 # 0) \/ (y % 400 = 0))

DaysInMonth(y, m) ==
    IF m = 2 THEN (IF IsLeap(y) THEN 29 ELSE 28)
    ELSE IF m \in {4, 6, 9, 11} THEN 30 ELSE 31

\* the value of a run of digits
RECURSIVE NumVal(_)
NumVal(ds) ==
    IF Len(ds) = 0 THEN 0
    ELSE 10 * NumVal(SubSeq(ds, 1, Len(ds) - 1)) + DigitVal(ds[Len(ds)])

AllDigits(t) == \A i \in 1..Len(t) : t[i] \in Digits

\* the values the directive's pattern in _strptime accepts as w digits:
\*   %Y \d\d\d\d                       %m 1[0-2]|0[1-9]|[1-9]
\*   %d 3[0-1]|[1-2]\d|0[1-9]|[1-9]    (and " [1-9]", see DirectiveAccepts)
\*   %H 2[0-3]|[0-1]\d|\d              %M [0-5]\d|\d      %S 6[0-1]|[0-5]\d|\d
DirectiveRange(d, w) ==
    CASE d = "%Y" -> IF w = 4 THEN 0..9999 ELSE {}
      [] d = "%m" -> IF w = 2 THEN 1..12 ELSE IF w = 1 THEN 1..9 ELSE {}
      [] d = "%d" -> IF w = 2 THEN 1..31 ELSE IF w = 1 THEN 1..9 ELSE {}
      [] d = "%H" -> IF w = 2 THEN 0..23 ELSE IF w = 1 THEN 0..9 ELSE {}
      [] d = "%M" -> IF w = 2 THEN 0..59 ELSE IF w = 1 THEN 0..9 ELSE {}
      [] d = "%S" -> IF w = 2 THEN 0..61 ELSE IF w = 1 THEN 0..9 ELSE {}

\* the text t is one alternative of the directive's pattern
DirectiveAccepts(d, t) ==
    \/ AllDigits(t) /\ NumVal(t) \in DirectiveRange(d, Len(t))
    \/ d = "%d" /\ Len(t) = 2 /\ t[1] = " " /\ t[2] \in (Digits \ {"0"})

\* int() of the text a directive matched
DirectiveValue(t) == NumVal(SelectSeq(t, LAMBDA c : c \in Digits))

\* the pattern is compiled with re.IGNORECASE
Upper(c) == IF c = "t" THEN "T" ELSE IF c = "z" THEN "Z" ELSE c

NoMatch == [ok |-> FALSE]

\* the match of a directive, worth v, followed by the match of the rest
Prepend(d, v, rest) ==
    IF rest.ok
    THEN [ok |-> TRUE, end |-> rest.end, val |-> <<<<d, v>>>> \o rest.val]
    ELSE NoMatch

\* alternation: the first alternative that matches
OrElse(a, b) == IF a.ok THEN a ELSE b

\* format_regex.match(data_string) from position i of s and item j of fmt:
\* the first choice of alternatives, in the pattern's order (two characters
\* before one), under which the rest of the format matches too; the match
\* need not reach the end of s
RECURSIVE MatchFrom(_, _, _, _)
RECURSIVE TryWidth(_, _, _, _, _)
TryWidth(s, i, fmt, j, w) ==
    IF i + w - 1 <= Len(s) /\ DirectiveAccepts(fmt[j], SubSeq(s, i, i + w - 1))
    THEN Prepend(fmt[j], DirectiveValue(SubSeq(s, i, i + w - 1)),
                 MatchFrom(s, i + w, fmt, j + 1))
    ELSE NoMatch

MatchFrom(s, i, fmt, j) ==
    IF j > Len(fmt) THEN [ok |-> TRUE, end |-> i, val |-> <<>>]
    ELSE IF fmt[j] \notin Directives
    THEN IF i <= Len(s) /\ Upper(s[i]) = Upper(fmt[j])
         THEN MatchFrom(s, i + 1, fmt, j + 1)
         ELSE NoMatch
    ELSE IF fmt[j] = "%Y" THEN TryWidth(s, i, fmt, j, 4)
    ELSE OrElse(TryWidth(s, i, fmt, j, 2), TryWidth(s, i, fmt, j, 1))

\* the value found for directive d, or its default
Found(val, d, default) ==
    IF \E k \in 1..Len(val) : val[k][1] = d
    THEN val[CHOOSE k \in 1..Len(val) : val[k][1] = d][2]
    ELSE default

ParseError == [ok |-> FALSE]

\* datetime(y, mo, dd, hh, mi, ss, tzinfo=utc): ValueError for a year below 1,
\* a day the month lacks or a second above 59
MakeDateTime(y, mo, dd, hh, mi, ss) ==
    IF y < 1 \/ dd > DaysInMonth(y, mo) \/ ss > 59 THEN ParseError
    ELSE [ok |-> TRUE,
          dt |-> [year |-> y, month |-> mo, day |-> dd, hour |-> hh,
                  minute |-> mi, second |-> ss, microsecond |-> 0]]

\* what strptime makes of the match m of its pattern on s: ValueError when
\* the pattern did not match or text is left over after the match
FromMatch(s, m) ==
    IF ~m.ok THEN ParseError
    ELSE IF m.end # Len(s) + 1 THEN ParseError
    ELSE MakeDateTime(Found(m.val, "%Y", 1900), Found(m.val, "%m", 1),
                      Found(m.val, "%d", 1), Found(m.val, "%H", 0),
                      Found(m.val, "%M", 0), Found(m.val, "%S", 0))

\* datetime.strptime(s, fmt).replace(tzinfo=timezone.utc)
Strptime(s, fmt) == FromMatch(s, MatchFrom(s, 1, fmt, 1))

\* n in decimal, zero-padded to w digits
RECURSIVE Pad(_, _)
Pad(n, w) ==
    IF w = 0 THEN <<>> ELSE Pad(n \div 10, w - 1) \o <<DigitChar(n % 10)>>

\* the field of dt a directive prints, and the width it is padded to
FieldOf(dt, d) ==
    CASE d = "%Y" -> dt.year [] d = "%m" -> dt.month [] d = "%d" -> dt.day
      [] d = "%H" -> dt.hour [] d = "%M" -> dt.minute [] d = "%S" -> dt.second

WidthOf(d) == IF d = "%Y" THEN 4 ELSE 2

\* dt.strftime(fmt), for years of four digits
RECURSIVE Strftime(_, _)
Strftime(dt, fmt) ==
    IF Len(fmt) = 0 THEN <<>>
    ELSE (IF Head(fmt) \in Directives
          THEN Pad(FieldOf(dt, Head(fmt)), WidthOf(Head(fmt)))
          ELSE <<Head(fmt)>>) \o Strftime(dt, Tail(fmt))

DateTimeKey(dt) == <<dt.year, dt.month, dt.day, dt.hour, dt.minute, dt.second, dt.microsecond>>

\* a variant of Before: a <= b
BeforeOrEqual(a, b) ==
    \A i \in 1..7 :
        (\A j \in 1..(i - 1) : DateTimeKey(a)[j] = DateTimeKey(b)[j])
            => DateTimeKey(a)[i] <= DateTimeKey(b)[i]

\* a < b for two aware datetimes of the same tzinfo
Before(a, b) ==
    LET ka == DateTimeKey(a)
        kb == DateTimeKey(b)
    IN  \E i \in 1..7 :
            /\ ka[i] < kb[i]
            /\ \A j \in 1..(i - 1) : ka[j] = kb[j]

----------------------------------------------------------------------------
(* how a call ends *)

Returned(v, l, n) == [status |-> "return", value |-> v, log |-> l, opens |-> n]

Raised(e, l, n) == [status |-> "raise", error |-> e, log |-> l, opens |-> n]

\* next() on a file with no line left
StopIteration == "StopIteration"

\* ValueError(f"Base image {base} not found in {UBUNTU_DISTRO_INFO}")
BaseNotFound == "ValueError: base image not found"

\* ValueError(f"Base image {base} does not have {eol_target}")
TargetNotFound == "ValueError: base image does not have eol_target"

\* the ValueError of datetime.strptime
TimeDataError == "ValueError: time data does not match format"

\* python's None as a returned value
NoneValue == [none |-> TRUE]

IsNone(v) == "none" \in DOMAIN v

----------------------------------------------------------------------------
(* is_track_eol *)

\* a variant of GetEndOfLife: track_value.get('end-of-life', '')
GetEndOfLifeOrEmpty(track_value) ==
    IF "end-of-life" \in DOMAIN track_value
    THEN Some(track_value["end-of-life"])
    ELSE Some(<<>>)

\* track_value.get('end-of-life')
GetEndOfLife(track_value) ==
    IF "end-of-life" \in DOMAIN track_value
    THEN Some(track_value["end-of-life"])
    ELSE None

UNNAMED_TRACK == <<"U", "N", "N", "A", "M", "E", "D", " ", "T", "R", "A", "C", "K">>   \* "UNNAMED TRACK"

UNKNOWN_TRACK == <<"U", "N", "K", "N", "O", "W", "N", " ", "T", "R", "A", "C", "K">>   \* "UNKNOWN TRACK"

\* track_name or default
NameOr(track_name, default) == IF Truthy(track_name) THEN track_name.str ELSE default

\* lines 44-50: the decision once the end-of-life string went through strptime
DecideEol(parsed, track_name, clock) ==
    IF ~parsed.ok THEN Raised(TimeDataError, <<>>, 0)
    ELSE IF Before(parsed.dt, clock)
    THEN Returned(TRUE,
                  <<[level |-> "warning", msg |-> "Removing EOL track",
                     track |-> NameOr(track_name, UNKNOWN_TRACK),
                     eol |-> parsed.dt]>>, 0)
    ELSE Returned(FALSE, <<>>, 0)

is_track_eol(track_value, track_name, clock) ==
    IF GetEndOfLife(track_value).none
    THEN Returned(TRUE,
                  <<[level |-> "error", msg |-> "No EOL provided",
                     track |-> NameOr(track_name, UNNAMED_TRACK)]>>, 0)
    ELSE DecideEol(Strptime(GetEndOfLife(track_value).str, EOL_TRACK_FMT),
                   track_name, clock)

----------------------------------------------------------------------------
(* get_base_eol *)

\* the rows of the comprehension: the lines after the header that start with
\* base, each stripped, split and zipped with the headers, in file order
ValidDistro(file, headers, base) ==
    LET rows == SelectSeq(Tail(file), LAMBDA row : StartsWith(row, base))
    IN  [i \in 1..Len(rows) |-> DictZip(headers, Split(Strip(rows[i]), ","))]

\* lines 83-84: the date read from the row, or the ValueError of strptime
DateOrError(parsed) ==
    IF ~parsed.ok THEN Raised(TimeDataError, <<>>, 1)
    ELSE Returned(parsed.dt, <<>>, 1)

\* a variant of FirstDistroEol: valid_distro.pop(), the last of the selected rows
LastDistroEol(valid_distro, eol_target) ==
    IF Len(valid_distro) = 0 THEN Raised(BaseNotFound, <<>>, 1)
    ELSE IF eol_target \notin DOMAIN valid_distro[Len(valid_distro)]
    THEN Raised(TargetNotFound, <<>>, 1)
    ELSE DateOrError(Strptime(valid_distro[Len(valid_distro)][eol_target], EOL_DISTRO_FMT))

\* lines 75-84: the first of the selected rows decides
FirstDistroEol(valid_distro, eol_target) ==
    IF Len(valid_distro) = 0 THEN Raised(BaseNotFound, <<>>, 1)
    ELSE IF eol_target \notin DOMAIN valid_distro[1] THEN Raised(TargetNotFound, <<>>, 1)
    ELSE DateOrError(Strptime(valid_distro[1][eol_target], EOL_DISTRO_FMT))

get_base_eol(file, base, eol_target) ==
    IF Len(file) = 0 THEN Raised(StopIteration, <<>>, 1)
    ELSE FirstDistroEol(ValidDistro(file, Split(Strip(file[1]), ","), base), eol_target)

EOL == <<"e", "o", "l">>   \* "eol"

EOL_SERVER == <<"e", "o", "l", "-", "s", "e", "r", "v", "e", "r">>   \* "eol-server"

EOL_ESM == <<"e", "o", "l", "-", "e", "s", "m">>   \* "eol-esm"

----------------------------------------------------------------------------
(* generate_base_eol_exceed_warning *)

Title == <<"F", "o", "u", "n", "d", " ", "t", "r", "a", "c", "k", "s", " ", "w", "i", "t", "h", " ", "E", "O", "L", " ", "d", "a", "t", "e", " ", "e", "x", "c", "e", "e", "d", "i", "n", "g", " ", "b", "a", "s", "e", " ", "i", "m", "a", "g", "e", "'", "s", " ", "E", "O", "L", " ", "d", "a", "t", "e">>   \* "Found tracks with EOL date exceeding base image's EOL date"

BodyIntro == <<"F", "o", "l", "l", "o", "w", "i", "n", "g", " ", "t", "r", "a", "c", "k", "s", " ", "h", "a", "v", "e", " ", "a", "n", " ", "E", "O", "L", " ", "d", "a", "t", "e", " ", "t", "h", "a", "t", " ", "e", "x", "c", "e", "e", "d", "s", " ", "t", "h", "e", " ", "b", "a", "s", "e", " ", "i", "m", "a", "g", "e", "'", "s", " ", "E", "O", "L", " ", "d", "a", "t", "e", ":">>   \* "Following tracks have an EOL date that exceeds the base image's EOL date:"

BodyHeader == <<"|", " ", "T", "r", "a", "c", "k", " ", "|", " ", "B", "a", "s", "e", " ", "|", " ", "T", "r", "a", "c", "k", " ", "E", "O", "L", " ", "D", "a", "t", "e", " ", "|", " ", "B", "a", "s", "e", " ", "E", "O", "L", " ", "D", "a", "t", "e", " ", "|">>   \* "| Track | Base | Track EOL Date | Base EOL Date |"

BodyRule == <<"|", "-", "-", "-", "-", "-", "-", "-", "|", "-", "-", "-", "-", "-", "-", "|", "-", "-", "-", "-", "-", "-", "-", "-", "-", "-", "-", "-", "-", "-", "-", "-", "|", "-", "-", "-", "-", "-", "-", "-", "-", "-", "-", "-", "-", "-", "-", "-", "|">>   \* "|-------|------|----------------|---------------|"

BodyAdvice == <<"P", "l", "e", "a", "s", "e", " ", "c", "h", "e", "c", "k", " ", "t", "h", "e", " ", "E", "O", "L", " ", "d", "a", "t", "e", " ", "o", "f", " ", "t", "h", "e", " ", "b", "a", "s", "e", " ", "i", "m", "a", "g", "e", " ", "a", "n", "d", " ", "t", "h", "e", " ", "t", "r", "a", "c", "k", ".">>   \* "Please check the EOL date of the base image and the track."

NL == <<"\n">>   \* "\n"

\* a variant of TableRecord: the two dates in each other's column
TableRecordDatesSwapped(build) ==
    <<"|", " ">> \o build.track \o <<" ", "|", " ">> \o build.base \o <<" ", "|", " ">> \o build.base_eol   \* "| ", " | ", " | "
          \o <<" ", "|", " ">> \o build.track_eol \o <<" ", "|">>   \* " | ", " |"

\* f"| {build['track']} | {build['base']} | {build['track_eol']} | {build['base_eol']} |"
TableRecord(build) ==
    <<"|", " ">> \o build.track \o <<" ", "|", " ">> \o build.base \o <<" ", "|", " ">> \o build.track_eol   \* "| ", " | ", " | "
          \o <<" ", "|", " ">> \o build.base_eol \o <<" ", "|">>   \* " | ", " |"

generate_base_eol_exceed_warning(tracks_eol_exceed_base_eol) ==
    LET table_records == [i \in 1..Len(tracks_eol_exceed_base_eol) |->
                              TableRecord(tracks_eol_exceed_base_eol[i])]
        body == BodyIntro \o NL \o BodyHeader \o NL \o BodyRule \o NL
                  \o Join(NL, table_records)
                  \o NL \o BodyAdvice \o NL
    IN  Returned([title |-> Title, body |-> body], <<>>, 0)

----------------------------------------------------------------------------
(* track_eol_exceeds_base_eol *)

UBUNTU_PREFIX == <<"u", "b", "u", "n", "t", "u", ":">>   \* "ubuntu:"

\* lines 137-146: the warning and the Violation Record, its dates in fmt
Violation(track, base_version_id, eol_date, base_eol, fmt, n) ==
    Returned([track |-> track,
              base |-> UBUNTU_PREFIX \o base_version_id,
              track_eol |-> Strftime(eol_date, fmt),
              base_eol |-> Strftime(base_eol, fmt)],
             <<[level |-> "warning", msg |-> "Track EOL exceeds base EOL",
                track |-> track, eol |-> eol_date, base_eol |-> base_eol]>>,
             n)

\* the day of dt at 00:00:00
DateOf(dt) == [dt EXCEPT !.hour = 0, !.minute = 0, !.second = 0, !.microsecond = 0]

\* a variant of ExceedsOrNot: the track's EOL compared by its date alone
ExceedsOrNotByDate(track, base_version_id, eol_date, base_eol, n) ==
    IF Before(base_eol, DateOf(eol_date))
    THEN Violation(track, base_version_id, eol_date, base_eol, EOL_DISTRO_FMT, n)
    ELSE Returned(NoneValue, <<>>, n)

\* a variant of ExceedsOrNot: the record's dates printed with EOL_TRACK_FMT
ExceedsOrNotTrackFmt(track, base_version_id, eol_date, base_eol, n) ==
    IF Before(base_eol, eol_date)
    THEN Violation(track, base_version_id, eol_date, base_eol, EOL_TRACK_FMT, n)
    ELSE Returned(NoneValue, <<>>, n)

\* lines 136-148: the comparison of the two instants
ExceedsOrNot(track, base_version_id, eol_date, base_eol, n) ==
    IF Before(base_eol, eol_date)
    THEN Violation(track, base_version_id, eol_date, base_eol, EOL_DISTRO_FMT, n)
    ELSE Returned(NoneValue, <<>>, n)

\* line 134: track_eol goes through strptime once the base EOL is known
WithTrackEol(track, base_version_id, parsed, base_eol, n) ==
    IF ~parsed.ok THEN Raised(TimeDataError, <<>>, n)
    ELSE ExceedsOrNot(track, base_version_id, parsed.dt, base_eol, n)

\* a variant of WithBaseEol: track_eol parsed before the outcome of
\* get_base_eol is looked at
TrackEolFirst(track, track_eol, base_version_id, looked) ==
    IF ~Strptime(track_eol, EOL_TRACK_FMT).ok THEN Raised(TimeDataError, <<>>, looked.opens)
    ELSE IF looked.status = "raise" THEN looked
    ELSE ExceedsOrNot(track, base_version_id, Strptime(track_eol, EOL_TRACK_FMT).dt,
                      looked.value, looked.opens)

\* lines 133-134: an error of get_base_eol ends the call before track_eol is parsed
WithBaseEol(track, track_eol, base_version_id, looked) ==
    IF looked.status = "raise" THEN looked
    ELSE WithTrackEol(track, base_version_id, Strptime(track_eol, EOL_TRACK_FMT),
                      looked.value, looked.opens)

\* a variant of BaseVersionId: always inferred from the track
BaseVersionIdFromTrack(track, base) == LastOf(Split(track, "-"))

\* lines 126 and 131: the version inferred from the track, or taken from base
BaseVersionId(track, base) ==
    IF ~Truthy(base) THEN LastOf(Split(track, "-")) ELSE LastOf(Split(base.str, ":"))

track_eol_exceeds_base_eol(file, track, track_eol, base) ==
    IF ~Truthy(base) /\ ~VERSION_ID_REGEX(BaseVersionId(track, base))
    THEN Returned(NoneValue,
                  <<[level |-> "warning", msg |-> "Track-base-EOL validation skipped",
                     track |-> track]>>, 0)
    ELSE WithBaseEol(track, track_eol, BaseVersionId(track, base),
                     get_base_eol(file, BaseVersionId(track, base), EOL))

----------------------------------------------------------------------------
(* the inputs the calls are checked on *)

DateTime(y, mo, d, h, mi, sec, us) ==
    [year |-> y, month |-> mo, day |-> d, hour |-> h, minute |-> mi,
     second |-> sec, microsecond |-> us]

\* instants around midnight of 2024-04-30, and instants years apart
Instants ==
    {DateTime(2024, 4, 30, 0, 0, sec, 0) : sec \in 0..MaxSecond}
      \cup {DateTime(2024, 4, 29, 23, 59, 59, 0),
            DateTime(2027, 4, 1, 0, 0, 0, 0),
            DateTime(2030, 1, 1, 12, 30, 0, 0)}

\* well-formed track EOL strings: the zero-padded form of each instant, and
\* forms strptime accepts as well
WellFormedTrackEols ==
    {Strftime(t, EOL_TRACK_FMT) : t \in Instants}
      \cup {<<"2", "0", "2", "4", "-", "4", "-", "3", "0", "T", "0", ":", "0", ":", "1", "z">>}   \* "2024-4-30T0:0:1z"

\* strings strptime rejects: no time of day, a day the month lacks
MalformedTrackEols == {<<"2", "0", "2", "4", "-", "0", "4", "-", "3", "0">>, <<"2", "0", "2", "3", "-", "0", "2", "-", "2", "9", "T", "0", "0", ":", "0", "0", ":", "0", "0", "Z">>}   \* "2024-04-30", "2023-02-29T00:00:00Z"

TrackEols == WellFormedTrackEols \cup MalformedTrackEols

\* readings of the clock, to the microsecond
Clocks ==
    {DateTime(2024, 4, 30, 0, 0, sec, us) : sec \in 0..MaxSecond, us \in {0, 1}}
      \cup {DateTime(2024, 4, 29, 23, 59, 59, 999999),
            DateTime(2026, 11, 3, 9, 15, 0, 250000)}

TrackValues ==
    {("end-of-life" :> e) : e \in TrackEols}
      \cup {("end-of-life" :> e) @@ ("risks" :> <<"s", "t", "a", "b", "l", "e">>) : e \in {<<"2", "0", "2", "4", "-", "0", "4", "-", "3", "0", "T", "0", "0", ":", "0", "0", ":", "0", "0", "Z">>}}   \* "stable", "2024-04-30T00:00:00Z"
      \cup {<<>>, ("risks" :> <<"s", "t", "a", "b", "l", "e">>)}   \* "stable"

TrackNames == {None, Some(<<>>), Some(<<"1", ".", "0", "-", "2", "2", ".", "0", "4">>)}   \* "1.0-22.04"

Tracks == {<<"1", ".", "0", "-", "2", "2", ".", "0", "4">>, <<"1", ".", "0", "-", "2", "4", ".", "0", "4">>, <<"2", "2", ".", "1", "0">>, <<"l", "a", "t", "e", "s", "t">>, <<"1", ".", "0", "-", "2", "2", ".", "0", "4", ".", "1">>}   \* "1.0-22.04", "1.0-24.04", "22.10", "latest", "1.0-22.04.1"

Bases == {None, Some(<<>>), Some(<<"u", "b", "u", "n", "t", "u", ":", "2", "2", ".", "0", "4">>), Some(<<"u", "b", "u", "n", "t", "u", ":", "2", "4", ".", "0", "4">>),   \* "ubuntu:22.04", "ubuntu:24.04"
          Some(<<"u", "b", "u", "n", "t", "u", ":", "2", "5", ".", "1", "0">>), Some(<<"2", "2", ".", "1", "0">>)}   \* "ubuntu:25.10", "22.10"

\* versions, a prefix of two rows, the first word of the header, the empty string
BaseVersions == {<<"2", "2", ".", "0", "4">>, <<"2", "2">>, <<"2", "2", ".", "1", "0">>, <<"2", "4", ".", "0", "4">>, <<"2", "5", ".", "1", "0">>, <<"v", "e", "r", "s", "i", "o", "n">>, <<>>}   \* "22.04", "22", "22.10", "24.04", "25.10", "version"

EolTargets == {EOL, EOL_SERVER, EOL_ESM}

Headers == {<<"v", "e", "r", "s", "i", "o", "n", ",", "s", "e", "r", "i", "e", "s", ",", "e", "o", "l", ",", "e", "o", "l", "-", "s", "e", "r", "v", "e", "r", ",", "e", "o", "l", "-", "e", "s", "m", "\n">>, <<"v", "e", "r", "s", "i", "o", "n", ",", "s", "e", "r", "i", "e", "s", "\n">>}   \* "version,series,eol,eol-server,eol-esm\n", "version,series\n"

\* data rows: all columns; no EOL column at all; EOL as the last field of the
\* line; an EOL on the day the instants surround; an EOL not yet known
DataRows ==
    {<<"2", "2", ".", "0", "4", " ", "L", "T", "S", ",", "j", "a", "m", "m", "y", ",", "2", "0", "2", "7", "-", "0", "4", "-", "0", "1", ",", "2", "0", "2", "7", "-", "0", "4", "-", "0", "1", ",", "2", "0", "3", "2", "-", "0", "4", "-", "0", "1", "\n">>,   \* "22.04 LTS,jammy,2027-04-01,2027-04-01,2032-04-01\n"
     <<"2", "2", ".", "0", "4", ",", "j", "a", "m", "m", "y", "\n">>,   \* "22.04,jammy\n"
     <<"2", "2", ".", "1", "0", ",", "k", "i", "n", "e", "t", "i", "c", ",", "2", "0", "2", "3", "-", "0", "7", "-", "2", "0", "\n">>,   \* "22.10,kinetic,2023-07-20\n"
     <<"2", "4", ".", "0", "4", " ", "L", "T", "S", ",", "n", "o", "b", "l", "e", ",", "2", "0", "2", "4", "-", "0", "4", "-", "3", "0", ",", "2", "0", "2", "9", "-", "0", "5", "-", "3", "1", "\n">>,   \* "24.04 LTS,noble,2024-04-30,2029-05-31\n"
     <<"2", "5", ".", "1", "0", ",", "q", "u", "e", "s", "t", "i", "n", "g", ",", ",", "\n">>}   \* "25.10,questing,,\n"

RECURSIVE SeqsUpTo(_, _)
SeqsUpTo(S, n) ==
    IF n = 0 THEN {<<>>}
    ELSE LET shorter == SeqsUpTo(S, n - 1)
         IN  shorter \cup {Append(q, x) : q \in shorter, x \in S}

\* the sequences of SeqsUpTo(S, n) that hold no element twice
DistinctSeqsUpTo(S, n) ==
    {q \in SeqsUpTo(S, n) : \A i, j \in 1..Len(q) : q[i] = q[j] => i = j}

\* the file: empty, or a header line and up to MaxRows data rows, no row twice
Feeds == {<<>>} \cup {<<h>> \o rows : h \in Headers, rows \in DistinctSeqsUpTo(DataRows, MaxRows)}

ViolationRecords ==
    {[track |-> <<"1", ".", "0", "-", "2", "2", ".", "0", "4">>, base |-> <<"u", "b", "u", "n", "t", "u", ":", "2", "2", ".", "0", "4">>,   \* "1.0-22.04", "ubuntu:22.04"
      track_eol |-> <<"2", "0", "3", "0", "-", "0", "1", "-", "0", "1">>, base_eol |-> <<"2", "0", "2", "7", "-", "0", "4", "-", "0", "1">>],   \* "2030-01-01", "2027-04-01"
     [track |-> <<"1", ".", "0", "-", "2", "4", ".", "0", "4">>, base |-> <<"u", "b", "u", "n", "t", "u", ":", "2", "4", ".", "0", "4">>,   \* "1.0-24.04", "ubuntu:24.04"
      track_eol |-> <<"2", "0", "2", "4", "-", "0", "4", "-", "3", "0">>, base_eol |-> <<"2", "0", "2", "4", "-", "0", "4", "-", "3", "0">>],   \* "2024-04-30", "2024-04-30"
     [track |-> <<"2", "2", ".", "1", "0">>, base |-> <<"u", "b", "u", "n", "t", "u", ":", "2", "2", ".", "1", "0">>,   \* "22.10", "ubuntu:22.10"
      track_eol |-> <<"2", "0", "2", "4", "-", "0", "4", "-", "2", "9">>, base_eol |-> <<"2", "0", "2", "3", "-", "0", "7", "-", "2", "0">>]}   \* "2024-04-29", "2023-07-20"

DefaultClock == DateTime(2026, 11, 3, 9, 15, 0, 250000)

DefaultFeed == <<<<"v", "e", "r", "s", "i", "o", "n", ",", "s", "e", "r", "i", "e", "s", ",", "e", "o", "l", ",", "e", "o", "l", "-", "s", "e", "r", "v", "e", "r", ",", "e", "o", "l", "-", "e", "s", "m", "\n">>>>   \* "version,series,eol,eol-server,eol-esm\n"

----------------------------------------------------------------------------
(* the calls *)

Pending == [status |-> "pending"]

Init ==
    /\ pc = "call"
    /\ ret = Pending
    /\ log = <<>>
    /\ opens = 0
    /\ \/ /\ call \in [fn : {"is_track_eol"}, track_value : TrackValues,
                       track_name : TrackNames]
          /\ now \in Clocks
          /\ feed = DefaultFeed
       \/ /\ call \in [fn : {"get_base_eol"}, base : BaseVersions, eol_target : EolTargets]
          /\ now = DefaultClock
          /\ feed \in Feeds
       \/ /\ call \in [fn : {"track_eol_exceeds_base_eol"}, track : Tracks,
                       track_eol : TrackEols, base : Bases]
          /\ now = DefaultClock
          /\ feed \in Feeds
       \/ /\ call \in [fn : {"generate_base_eol_exceed_warning"},
                       tracks_eol_exceed_base_eol : SeqsUpTo(ViolationRecords, MaxViolations)]
          /\ now = DefaultClock
          /\ feed = DefaultFeed

\* the call ends with outcome o
Finish(o) ==
    /\ pc' = "done"
    /\ ret' = IF o.status = "return"
              THEN [status |-> "return", value |-> o.value]
              ELSE [status |-> "raise", error |-> o.error]
    /\ log' = o.log
    /\ opens' = o.opens
    /\ UNCHANGED <<feed, now, call>>

IsTrackEol ==
    /\ pc = "call"
    /\ call.fn = "is_track_eol"
    /\ Finish(is_track_eol(call.track_value, call.track_name, now))

GetBaseEol ==
    /\ pc = "call"
    /\ call.fn = "get_base_eol"
    /\ Finish(get_base_eol(feed, call.base, call.eol_target))

TrackEolExceedsBaseEol ==
    /\ pc = "call"
    /\ call.fn = "track_eol_exceeds_base_eol"
    /\ Finish(track_eol_exceeds_base_eol(feed, call.track, call.track_eol, call.base))

GenerateBaseEolExceedWarning ==
    /\ pc = "call"
    /\ call.fn = "generate_base_eol_exceed_warning"
    /\ Finish(generate_base_eol_exceed_warning(call.tracks_eol_exceed_base_eol))

Next ==
    \/ IsTrackEol
    \/ GetBaseEol
    \/ TrackEolExceedsBaseEol
    \/ GenerateBaseEolExceedWarning

Spec == Init /\ [][Next]_vars

----------------------------------------------------------------------------
(* what the claims speak of, stated without the operators above *)

Done(fn) == pc = "done" /\ call.fn = fn

\* the instant each well-formed track EOL string denotes
TrackEolMeaning ==
    {[text |-> Strftime(t, EOL_TRACK_FMT), instant |-> t] : t \in Instants}
      \cup {[text |-> <<"2", "0", "2", "4", "-", "4", "-", "3", "0", "T", "0", ":", "0", ":", "1", "z">>, instant |-> DateTime(2024, 4, 30, 0, 0, 1, 0)]}   \* "2024-4-30T0:0:1z"

DayNumber(t) == (t.year * 12 + t.month) * 31 + t.day

MicroOfSecond(t) == t.microsecond

SecondOfDay(t) == (t.hour * 60 + t.minute) * 60 + t.second

\* instant a is strictly earlier than instant b
Earlier(a, b) ==
    \/ DayNumber(a) < DayNumber(b)
    \/ DayNumber(a) = DayNumber(b) /\ SecondOfDay(a) < SecondOfDay(b)
    \/ /\ DayNumber(a) = DayNumber(b)
       /\ SecondOfDay(a) = SecondOfDay(b)
       /\ MicroOfSecond(a) < MicroOfSecond(b)

\* UTC midnight of the day of t
Midnight(t) == DateTime(t.year, t.month, t.day, 0, 0, 0, 0)

\* the text after the last c of s; all of s when it holds no c
TextAfterLast(s, c) ==
    LET at == {i \in 1..Len(s) : s[i] = c}
    IN  IF at = {} THEN s
        ELSE SubSeq(s, (CHOOSE i \in at : \A j \in at : j <= i) + 1, Len(s))

\* one or two digits, a dot, one or two digits, and nothing else
VersionShaped(s) ==
    \E a \in {1, 2}, b \in {1, 2} :
        /\ Len(s) = a + 1 + b
        /\ s[a + 1] = "."
        /\ \A i \in (1..Len(s)) \ {a + 1} : s[i] \in Digits

\* no base was passed: None, or the empty string, which the code treats alike
BaseOmitted(b) == b.none \/ b.str = <<>>

\* the call took the skip branch's precondition: no base, no version in the track
SkipCase == BaseOmitted(call.base) /\ ~VersionShaped(TextAfterLast(call.track, "-"))

\* the version the call resolves
ResolvedVersion ==
    IF BaseOmitted(call.base) THEN TextAfterLast(call.track, "-")
    ELSE TextAfterLast(call.base.str, ":")

\* the line begins with the text b
Begins(line, b) == \A i \in 1..Len(b) : i <= Len(line) /\ line[i] = b[i]

\* the data rows of the feed that begin with b, by line number
MatchingRows(b) == {i \in 2..Len(feed) : Begins(feed[i], b)}

Topmost(rows) == CHOOSE i \in rows : \A j \in rows : i <= j

\* a line without its line terminator
Chomp(line) ==
    IF Len(line) > 0 /\ line[Len(line)] = "\n" THEN SubSeq(line, 1, Len(line) - 1) ELSE line

Commas(t) == {i \in 1..Len(t) : t[i] = ","}

NumFields(t) == Cardinality(Commas(t)) + 1

\* the position of the k-th comma of t; 0 before the first field, Len(t) + 1
\* after the last
CommaAt(t, k) ==
    IF k = 0 THEN 0
    ELSE IF k > Cardinality(Commas(t)) THEN Len(t) + 1
    ELSE CHOOSE c \in Commas(t) : Cardinality({x \in Commas(t) : x <= c}) = k

\* the k-th comma-separated field of t
NthField(t, k) == SubSeq(t, CommaAt(t, k - 1) + 1, CommaAt(t, k) - 1)

\* the columns of the header named target that line i of the feed reaches
ColumnsReached(i, target) ==
    {k \in 1..NumFields(Chomp(feed[1])) :
        /\ NthField(Chomp(feed[1]), k) = target
        /\ k <= NumFields(Chomp(feed[i]))}

\* the dates the data rows hold
FeedDates ==
    {DateTime(2027, 4, 1, 0, 0, 0, 0), DateTime(2032, 4, 1, 0, 0, 0, 0),
     DateTime(2023, 7, 20, 0, 0, 0, 0), DateTime(2024, 4, 30, 0, 0, 0, 0),
     DateTime(2029, 5, 31, 0, 0, 0, 0)}

\* the call ended as the outcome o does
SameOutcome(o) ==
    /\ ret.status = o.status
    /\ (o.status = "return" => ret.value = o.value)
    /\ (o.status = "raise" => ret.error = o.error)

Levels(l) == {i \in 1..Len(log) : log[i].level = l}

----------------------------------------------------------------------------
(* C1: with a well-formed end-of-life, is_track_eol returns true exactly     *)
(* when the instant the string denotes is strictly before now; it returns    *)
(* false when the two are equal or the end-of-life is later.                 *)
C1_EolIffStrictlyBeforeNow ==
    (Done("is_track_eol") /\ "end-of-life" \in DOMAIN call.track_value) =>
        \A m \in TrackEolMeaning :
            m.text = call.track_value["end-of-life"] =>
                /\ ret.status = "return"
                /\ ret.value = Earlier(m.instant, now)

\* the end-of-life instant is the very reading of the clock: not EOL
C1_Witness ==
    /\ Done("is_track_eol")
    /\ "end-of-life" \in DOMAIN call.track_value
    /\ call.track_value["end-of-life"] = Strftime(now, EOL_TRACK_FMT)
    /\ now.microsecond = 0
    /\ ret.status = "return"
    /\ ret.value = FALSE

(* C2: without an end-of-life field, whatever the track name and the clock,  *)
(* is_track_eol returns true, logs exactly one error and no warning, and     *)
(* raises nothing.                                                           *)
C2_MissingEolIsEol ==
    (Done("is_track_eol") /\ "end-of-life" \notin DOMAIN call.track_value) =>
        /\ ret.status = "return"
        /\ ret.value = TRUE
        /\ Cardinality(Levels("error")) = 1
        /\ Levels("warning") = {}
        /\ Len(log) = 1

\* a record with other fields only, and no track name given
C2_Witness ==
    /\ Done("is_track_eol")
    /\ DOMAIN call.track_value = {"risks"}
    /\ call.track_name.none
    /\ ret.status = "return"
    /\ Len(log) = 1
    /\ log[1].level = "error"

(* C3: when the base version is resolved and get_base_eol finds its EOL, and *)
(* track_eol is well-formed, a Violation Record is returned exactly when the *)
(* track's instant is strictly later than midnight of the base's EOL date,   *)
(* and None otherwise.                                                       *)
C3_ViolationIffStrictlyLater ==
    (Done("track_eol_exceeds_base_eol") /\ ~SkipCase) =>
        \A m \in TrackEolMeaning :
            (/\ m.text = call.track_eol
             /\ get_base_eol(feed, ResolvedVersion, EOL).status = "return") =>
                /\ ret.status = "return"
                /\ (~IsNone(ret.value)) =
                       Earlier(Midnight(get_base_eol(feed, ResolvedVersion, EOL).value),
                               m.instant)

\* one second after midnight of the base's EOL day is a violation
C3_Witness ==
    /\ Done("track_eol_exceeds_base_eol")
    /\ call.track = <<"1", ".", "0", "-", "2", "4", ".", "0", "4">>   \* "1.0-24.04"
    /\ call.base.none
    /\ call.track_eol = <<"2", "0", "2", "4", "-", "0", "4", "-", "3", "0", "T", "0", "0", ":", "0", "0", ":", "0", "1", "Z">>   \* "2024-04-30T00:00:01Z"
    /\ ret.status = "return"
    /\ ~IsNone(ret.value)
    /\ ret.value.base_eol = <<"2", "0", "2", "4", "-", "0", "4", "-", "3", "0">>   \* "2024-04-30"

(* C4: without a base and with a track whose text after the last "-" is not  *)
(* a version, the call returns None, raises nothing and logs one warning,    *)
(* whatever track_eol and the feed are: the feed is not opened and track_eol *)
(* is not parsed.                                                            *)
C4_SkipWithoutVersion ==
    (Done("track_eol_exceeds_base_eol") /\ SkipCase) =>
        /\ ret.status = "return"
        /\ IsNone(ret.value)
        /\ Len(log) = 1
        /\ log[1].level = "warning"
        /\ log[1].msg = "Track-base-EOL validation skipped"
        /\ opens = 0

\* an alias track, a malformed track_eol and an empty feed
C4_Witness ==
    /\ Done("track_eol_exceeds_base_eol")
    /\ call.track = <<"l", "a", "t", "e", "s", "t">>   \* "latest"
    /\ call.base.none
    /\ call.track_eol \in MalformedTrackEols
    /\ feed = <<>>
    /\ ret.status = "return"
    /\ IsNone(ret.value)

\* the two cases of C5 and the not-found error each meets
NotFoundCases ==
    /\ (ret.status = "raise" /\ ret.error = BaseNotFound)
           = (MatchingRows(call.base) = {})
    /\ (ret.status = "raise" /\ ret.error = TargetNotFound)
           = (/\ MatchingRows(call.base) # {}
              /\ ColumnsReached(Topmost(MatchingRows(call.base)), call.eol_target) = {})

(* C5: get_base_eol raises the base-not-found error exactly when no data row *)
(* of the feed begins with base, and the no-such-column error exactly when   *)
(* the topmost row that begins with base has no field under an eol_target    *)
(* column of the header, whatever the rows below hold.                       *)
C5_NotFoundExactly == Done("get_base_eol") => NotFoundCases

(* C5, on the feeds that hold a header line: there the two cases are exact.  *)
C5_HoldsWithHeader == (Done("get_base_eol") /\ Len(feed) >= 1) => NotFoundCases

\* a file of no line at all: no data row begins with base, and next() raises
\* StopIteration before any row is looked at
C5_EmptyFile ==
    /\ Done("get_base_eol")
    /\ feed = <<>>
    /\ ret.status = "raise"
    /\ ret.error = StopIteration

\* the first row of 22.04 is short, the second holds the column
C5_LaterRowIgnored ==
    /\ Done("get_base_eol")
    /\ Len(feed) = 3
    /\ call.base = <<"2", "2", ".", "0", "4">>   \* "22.04"
    /\ call.eol_target = EOL
    /\ ColumnsReached(2, EOL) = {}
    /\ ColumnsReached(3, EOL) # {}
    /\ MatchingRows(call.base) = {2, 3}
    /\ ret.status = "raise"
    /\ ret.error = TargetNotFound

(* C6: when some data row begins with base, the call ends as it does on the  *)
(* feed cut after the topmost such row, and when that row holds a date under *)
(* the eol_target column the call returns midnight UTC of that date.         *)
C6_TopmostRowDecides ==
    (Done("get_base_eol") /\ MatchingRows(call.base) # {}) =>
        /\ SameOutcome(get_base_eol(SubSeq(feed, 1, Topmost(MatchingRows(call.base))),
                                    call.base, call.eol_target))
        /\ \A k \in ColumnsReached(Topmost(MatchingRows(call.base)), call.eol_target) :
               \A d \in FeedDates :
                   NthField(Chomp(feed[Topmost(MatchingRows(call.base))]), k)
                       = Strftime(d, EOL_DISTRO_FMT) =>
                       /\ ret.status = "return"
                       /\ ret.value = d

\* "22" matches 22.04 and 22.10 rows; the first listed, 22.10, is returned
C6_Witness ==
    /\ Done("get_base_eol")
    /\ call.base = <<"2", "2">>   \* "22"
    /\ call.eol_target = EOL
    /\ Cardinality(MatchingRows(call.base)) = 2
    /\ Begins(feed[2], <<"2", "2", ".", "1", "0">>)   \* "22.10"
    /\ Begins(feed[3], <<"2", "2", ".", "0", "4", " ", "L", "T", "S">>)   \* "22.04 LTS"
    /\ ret.status = "return"
    /\ ret.value = DateTime(2023, 7, 20, 0, 0, 0, 0)

\* the cells of a table row: the texts between its bars, without the spaces
\* around them
Cells(row) ==
    [k \in 1..(Len(Split(row, "|")) - 2) |-> Strip(Split(row, "|")[k + 1])]

(* C7: the report is the fixed title and a body of the intro line, the two   *)
(* table header lines, one row per record in the order given, each holding   *)
(* the record's track, base, track_eol and base_eol, and the advisory line.  *)
C7_ReportRows ==
    Done("generate_base_eol_exceed_warning") =>
        LET records == call.tracks_eol_exceed_base_eol
            lines == Split(ret.value.body, "\n")
            rows == SelectSeq(SubSeq(lines, 4, Len(lines) - 2), LAMBDA l : l # <<>>)
        IN  /\ ret.status = "return"
            /\ ret.value.title = Title
            /\ Len(lines) >= 5
            /\ SubSeq(lines, 1, 3) = <<BodyIntro, BodyHeader, BodyRule>>
            /\ SubSeq(lines, Len(lines) - 1, Len(lines)) = <<BodyAdvice, <<>>>>
            /\ Len(rows) = Len(records)
            /\ Len(lines) = (IF Len(records) = 0 THEN 1 ELSE Len(records)) + 5
            /\ \A i \in 1..Len(records) :
                   Cells(rows[i]) = <<records[i].track, records[i].base,
                                      records[i].track_eol, records[i].base_eol>>

\* two different records, reported in the order given
C7_Witness ==
    /\ Done("generate_base_eol_exceed_warning")
    /\ Len(call.tracks_eol_exceed_base_eol) >= 2
    /\ call.tracks_eol_exceed_base_eol[1].track = <<"2", "2", ".", "1", "0">>   \* "22.10"
    /\ call.tracks_eol_exceed_base_eol[2].track = <<"1", ".", "0", "-", "2", "2", ".", "0", "4">>   \* "1.0-22.04"
    /\ ret.status = "return"

(* C8: in every Violation Record returned, track_eol parsed as a date is the *)
(* day of the input track_eol, base_eol parsed as a date is the timestamp    *)
(* get_base_eol returned, the first is not earlier than the second, and the  *)
(* two strings are equal when the two days are the same.                     *)
C8_RecordDatesRoundTrip ==
    (Done("track_eol_exceeds_base_eol") /\ ret.status = "return" /\ ~IsNone(ret.value)) =>
        /\ Strptime(ret.value.base_eol, EOL_DISTRO_FMT).ok
        /\ Strptime(ret.value.track_eol, EOL_DISTRO_FMT).ok
        /\ Strptime(ret.value.base_eol, EOL_DISTRO_FMT).dt
               = get_base_eol(feed, ResolvedVersion, EOL).value
        /\ ~Earlier(Strptime(ret.value.track_eol, EOL_DISTRO_FMT).dt,
                    Strptime(ret.value.base_eol, EOL_DISTRO_FMT).dt)
        /\ \A m \in TrackEolMeaning :
               m.text = call.track_eol =>
                   /\ Strptime(ret.value.track_eol, EOL_DISTRO_FMT).dt = Midnight(m.instant)
                   /\ (Midnight(m.instant) = get_base_eol(feed, ResolvedVersion, EOL).value
                          => ret.value.track_eol = ret.value.base_eol)

\* a track EOL in the afternoon, years after the base's EOL
C8_Witness ==
    /\ Done("track_eol_exceeds_base_eol")
    /\ call.track_eol = <<"2", "0", "3", "0", "-", "0", "1", "-", "0", "1", "T", "1", "2", ":", "3", "0", ":", "0", "0", "Z">>   \* "2030-01-01T12:30:00Z"
    /\ call.base = Some(<<"u", "b", "u", "n", "t", "u", ":", "2", "2", ".", "0", "4">>)   \* "ubuntu:22.04"
    /\ ret.status = "return"
    /\ ~IsNone(ret.value)
    /\ ret.value.track_eol = <<"2", "0", "3", "0", "-", "0", "1", "-", "0", "1">>   \* "2030-01-01"
    /\ ret.value.base_eol = <<"2", "0", "2", "7", "-", "0", "4", "-", "0", "1">>   \* "2027-04-01"

C10_BaseArgumentDecidesVersion ==
    Done("track_eol_exceeds_base_eol") =>
        /\ ~BaseOmitted(call.base) =>
               /\ opens = 1
               /\ \A i \in 1..Len(log) : log[i].msg # "Track-base-EOL validation skipped"
               /\ get_base_eol(feed, TextAfterLast(call.base.str, ":"), EOL).status = "raise"
                      => SameOutcome(get_base_eol(feed, TextAfterLast(call.base.str, ":"), EOL))
               /\ \A t \in Tracks :
                      track_eol_exceeds_base_eol(feed, t, call.track_eol, call.base).status
                          = ret.status
        /\ (ret.status = "return" /\ ~IsNone(ret.value)) =>
               /\ ret.value.track = call.track
               /\ ret.value.base =
                      <<"u", "b", "u", "n", "t", "u", ":">> \o (IF BaseOmitted(call.base)   \* "ubuntu:"
                                     THEN TextAfterLast(call.track, "-")
                                     ELSE TextAfterLast(call.base.str, ":"))

\* base ubuntu:24.04 for a track named after 22.04
C10_Witness ==
    /\ Done("track_eol_exceeds_base_eol")
    /\ call.track = <<"1", ".", "0", "-", "2", "2", ".", "0", "4">>   \* "1.0-22.04"
    /\ call.base = Some(<<"u", "b", "u", "n", "t", "u", ":", "2", "4", ".", "0", "4">>)   \* "ubuntu:24.04"
    /\ ret.status = "return"
    /\ ~IsNone(ret.value)
    /\ ret.value.track = <<"1", ".", "0", "-", "2", "2", ".", "0", "4">>   \* "1.0-22.04"
    /\ ret.value.base = <<"u", "b", "u", "n", "t", "u", ":", "2", "4", ".", "0", "4">>   \* "ubuntu:24.04"

====
